---- MODULE Spec2Model ----
(***************************************************************************)
(* Model of the withHistory reducer enhancer                               *)
(* (src/editor/utils/with-history/index.js) wrapped around the counter     *)
(* reducer of its test-suite.                                              *)
(*                                                                         *)
(* JavaScript objects are compared by reference (===) in the code, so      *)
(* every object carries its identity: a document state is                  *)
(* [ref, count] and a history state is [id, past, present, future].       *)
(* A fresh object takes the next value of an allocation counter; a         *)
(* returned input keeps its identity.                                      *)
(***************************************************************************)
EXTENDS Integers, Sequences, FiniteSets

\* Bounds of the exploration: number of document objects and of history
\* objects that may be allocated in one run.
MaxDocs == 5
MaxObjs == 9

VARIABLES
    options,    \* the options argument of withHistory: [resetTypes]
    state,      \* the history object held by the store
    prev,       \* the state argument of the last call
    prev2,      \* the state argument of the call before
    calls,      \* the calls of the base reducer made by the last call
    bstate,     \* the history object of the buffered version, same actions
    bprev,      \* the state argument of the last call, buffered version
    bcalls,     \* the calls of the base reducer, buffered version
    bnextId,    \* next free identity of a history object, buffered version
    bnextRef,   \* next free identity of a document object, buffered version
    action,     \* the type of the last dispatched action
    action2,    \* the type of the action dispatched before
    run,        \* position of the run in (edit CREATE_UNDO_LEVEL)* UNDO REDO
    applied,    \* present at the last UNDO, REDO, CREATE_UNDO_LEVEL or reset,
                \* then the new documents the base reducer returned since
    appliedEff, \* the same, a REDO with empty future not counted
    nextId,     \* next free identity of a history object
    nextRef     \* next free identity of a document object

vars == <<options, state, prev, prev2, calls, bstate, bprev, bcalls, bnextId,
          bnextRef, action, action2, run, applied, appliedEff, nextId,
          nextRef>>

----------------------------------------------------------------------------
\* Values

\* The type of the empty action {} (action.type is undefined).
EmptyType == "undefined"

ControlTypes == {"UNDO", "REDO", "CREATE_UNDO_LEVEL"}

\* Types of ordinary actions dispatched by the tests.
OtherTypes == {"INCREMENT", "RESET_HISTORY", EmptyType}

\* The values of options.resetTypes explored; {} stands for the default
\* options = {} (includes( undefined, type ) is false).
ResetTypeChoices == {{}, {"RESET_HISTORY"}, {"RESET_HISTORY", "INCREMENT"}}

\* JavaScript undefined, as a document and as a history.
Undefined == [ref |-> 0, count |-> 0]
UndefinedState == [id |-> 0, past |-> <<>>, present |-> Undefined, future |-> <<>>]
UndefinedStateBuffered ==
    [id |-> 0, past |-> <<>>, present |-> Undefined, buffer |-> Undefined,
     future |-> <<>>]

\* seq[ i ] of JavaScript with a 0-based index: undefined out of range.
At(seq, i) == IF i >= 0 /\ i < Len(seq) THEN seq[i + 1] ELSE Undefined

\* seq.slice( from, to ) with 0-based bounds, to exclusive; a negative
\* bound counts from the end.
slice(seq, from, to) ==
    LET rel(k) == IF k < 0
                  THEN (IF Len(seq) + k < 0 THEN 0 ELSE Len(seq) + k)
                  ELSE (IF k > Len(seq) THEN Len(seq) ELSE k)
        lo == rel(from)
        hi == rel(to)
    IN  IF hi <= lo THEN <<>> ELSE SubSeq(seq, lo + 1, hi)

\* includes( collection, value ) of lodash.
includes(collection, value) == value \in collection

----------------------------------------------------------------------------
\* The base reducer of the tests.  freshRef is the identity the object
\* literal takes if one is created.

counter(docState, type, freshRef) ==
    LET s == IF docState = Undefined
             THEN [ref |-> freshRef, count |-> 0]
             ELSE docState
    IN  IF type = "INCREMENT"
        THEN [ref |-> freshRef, count |-> s.count + 1]
        ELSE s

----------------------------------------------------------------------------
\* withHistory, merged-present version.

\* Variant of initialState that seeds an empty past.
initialState_emptyPast(freshId, freshRef) ==
    LET initialPresent == counter(Undefined, EmptyType, freshRef)
    IN  [id |-> freshId,
         past |-> <<>>,
         present |-> initialPresent,
         future |-> <<>>]

\* initialState: built once when the enhancer is created.
initialState(freshId, freshRef) ==
    LET initialPresent == counter(Undefined, EmptyType, freshRef)
    IN  [id |-> freshId,
         past |-> <<initialPresent>>,
         present |-> initialPresent,
         future |-> <<>>]

\* Variant of undo that removes a committed level when it discards a
\* provisional edit.
undo_dropsPast(s, freshId) ==
    IF At(s.past, Len(s.past) - 1) # s.present
    THEN [id |-> freshId,
          past |-> slice(s.past, 0, Len(s.past) - 1),
          present |-> At(s.past, Len(s.past) - 1),
          future |-> <<s.present>> \o s.future]
    ELSE IF Len(s.past) < 2
    THEN s
    ELSE [id |-> freshId,
          past |-> slice(s.past, 0, Len(s.past) - 1),
          present |-> At(s.past, Len(s.past) - 2),
          future |-> <<s.present>> \o s.future]

\* Variant of undo that takes present from the removed level.
undo_keepsPresent(s, freshId) ==
    IF At(s.past, Len(s.past) - 1) # s.present
    THEN [id |-> freshId,
          past |-> s.past,
          present |-> At(s.past, Len(s.past) - 1),
          future |-> <<s.present>> \o s.future]
    ELSE IF Len(s.past) < 2
    THEN s
    ELSE [id |-> freshId,
          past |-> slice(s.past, 0, Len(s.past) - 1),
          present |-> At(s.past, Len(s.past) - 1),
          future |-> <<s.present>> \o s.future]

\* Variant of undo that returns a copy when there is nothing to undo.
undo_copiesAtBoundary(s, freshId) ==
    IF At(s.past, Len(s.past) - 1) # s.present
    THEN [id |-> freshId,
          past |-> s.past,
          present |-> At(s.past, Len(s.past) - 1),
          future |-> <<s.present>> \o s.future]
    ELSE IF Len(s.past) < 2
    THEN [s EXCEPT !.id = freshId]
    ELSE [id |-> freshId,
          past |-> slice(s.past, 0, Len(s.past) - 1),
          present |-> At(s.past, Len(s.past) - 2),
          future |-> <<s.present>> \o s.future]

\* Variant of undo whose boundary test is past.length < 1.
undo_popsLastLevel(s, freshId) ==
    IF At(s.past, Len(s.past) - 1) # s.present
    THEN [id |-> freshId,
          past |-> s.past,
          present |-> At(s.past, Len(s.past) - 1),
          future |-> <<s.present>> \o s.future]
    ELSE IF Len(s.past) < 1
    THEN s
    ELSE [id |-> freshId,
          past |-> slice(s.past, 0, Len(s.past) - 1),
          present |-> At(s.past, Len(s.past) - 2),
          future |-> <<s.present>> \o s.future]

\* Variant of undo that restores the level before the last one when it
\* discards a provisional edit.
undo_skipsLevel(s, freshId) ==
    IF At(s.past, Len(s.past) - 1) # s.present
    THEN [id |-> freshId,
          past |-> s.past,
          present |-> At(s.past, Len(s.past) - 2),
          future |-> <<s.present>> \o s.future]
    ELSE IF Len(s.past) < 2
    THEN s
    ELSE [id |-> freshId,
          past |-> slice(s.past, 0, Len(s.past) - 1),
          present |-> At(s.past, Len(s.past) - 2),
          future |-> <<s.present>> \o s.future]

\* Variant of undo that forgets the older redo entries.
undo_forgetsFuture(s, freshId) ==
    IF At(s.past, Len(s.past) - 1) # s.present
    THEN [id |-> freshId,
          past |-> s.past,
          present |-> At(s.past, Len(s.past) - 1),
          future |-> <<s.present>> \o s.future]
    ELSE IF Len(s.past) < 2
    THEN s
    ELSE [id |-> freshId,
          past |-> slice(s.past, 0, Len(s.past) - 1),
          present |-> At(s.past, Len(s.past) - 2),
          future |-> <<s.present>>]

\* Variant of undo that does not record the provisional edit it discards.
undo_dropsPresent(s, freshId) ==
    IF At(s.past, Len(s.past) - 1) # s.present
    THEN [id |-> freshId,
          past |-> s.past,
          present |-> At(s.past, Len(s.past) - 1),
          future |-> s.future]
    ELSE IF Len(s.past) < 2
    THEN s
    ELSE [id |-> freshId,
          past |-> slice(s.past, 0, Len(s.past) - 1),
          present |-> At(s.past, Len(s.past) - 2),
          future |-> <<s.present>> \o s.future]

\* Variant of undo that records the provisional edit behind the redo
\* entries.
undo_pushesBehind(s, freshId) ==
    IF At(s.past, Len(s.past) - 1) # s.present
    THEN [id |-> freshId,
          past |-> s.past,
          present |-> At(s.past, Len(s.past) - 1),
          future |-> s.future \o <<s.present>>]
    ELSE IF Len(s.past) < 2
    THEN s
    ELSE [id |-> freshId,
          past |-> slice(s.past, 0, Len(s.past) - 1),
          present |-> At(s.past, Len(s.past) - 2),
          future |-> <<s.present>> \o s.future]

\* Variant of undo that tests the boundary before the provisional edit.
undo_boundaryFirst(s, freshId) ==
    IF Len(s.past) < 2
    THEN s
    ELSE IF At(s.past, Len(s.past) - 1) # s.present
    THEN [id |-> freshId,
          past |-> s.past,
          present |-> At(s.past, Len(s.past) - 1),
          future |-> <<s.present>> \o s.future]
    ELSE [id |-> freshId,
          past |-> slice(s.past, 0, Len(s.past) - 1),
          present |-> At(s.past, Len(s.past) - 2),
          future |-> <<s.present>> \o s.future]

\* Variant of undo that does not remove the level it undoes.
undo_keepsLevel(s, freshId) ==
    IF At(s.past, Len(s.past) - 1) # s.present
    THEN [id |-> freshId,
          past |-> s.past,
          present |-> At(s.past, Len(s.past) - 1),
          future |-> <<s.present>> \o s.future]
    ELSE IF Len(s.past) < 2
    THEN s
    ELSE [id |-> freshId,
          past |-> s.past,
          present |-> At(s.past, Len(s.past) - 2),
          future |-> <<s.present>> \o s.future]

\* Variant of undo that records the level it undoes behind the redo
\* entries.
undo_appendsLevel(s, freshId) ==
    IF At(s.past, Len(s.past) - 1) # s.present
    THEN [id |-> freshId,
          past |-> s.past,
          present |-> At(s.past, Len(s.past) - 1),
          future |-> <<s.present>> \o s.future]
    ELSE IF Len(s.past) < 2
    THEN s
    ELSE [id |-> freshId,
          past |-> slice(s.past, 0, Len(s.past) - 1),
          present |-> At(s.past, Len(s.past) - 2),
          future |-> s.future \o <<s.present>>]

\* case 'UNDO'
undo(s, freshId) ==
    IF At(s.past, Len(s.past) - 1) # s.present
    THEN [id |-> freshId,
          past |-> s.past,
          present |-> At(s.past, Len(s.past) - 1),
          future |-> <<s.present>> \o s.future]
    ELSE IF Len(s.past) < 2
    THEN s
    ELSE [id |-> freshId,
          past |-> slice(s.past, 0, Len(s.past) - 1),
          present |-> At(s.past, Len(s.past) - 2),
          future |-> <<s.present>> \o s.future]

\* Variant of redo that appends present to past.
redo_pushesPresent(s, freshId) ==
    IF Len(s.future) = 0
    THEN s
    ELSE [id |-> freshId,
          past |-> s.past \o <<s.present>>,
          present |-> At(s.future, 0),
          future |-> slice(s.future, 1, Len(s.future))]

\* Variant of redo that leaves the replayed entry in future.
redo_keepsFuture(s, freshId) ==
    IF Len(s.future) = 0
    THEN s
    ELSE [id |-> freshId,
          past |-> s.past \o <<At(s.future, 0)>>,
          present |-> At(s.future, 0),
          future |-> s.future]

\* Variant of redo that takes present from the end of the old past.
redo_presentFromPast(s, freshId) ==
    IF Len(s.future) = 0
    THEN s
    ELSE [id |-> freshId,
          past |-> s.past \o <<At(s.future, 0)>>,
          present |-> At(s.past, Len(s.past) - 1),
          future |-> slice(s.future, 1, Len(s.future))]

\* Variant of redo that reads future one element too far.
redo_readsPastEnd(s, freshId) ==
    IF Len(s.future) = 0
    THEN s
    ELSE [id |-> freshId,
          past |-> s.past \o <<At(s.future, 0)>>,
          present |-> At(s.future, Len(s.future)),
          future |-> slice(s.future, 1, Len(s.future))]

\* Variant of redo that replays the last redo entry.
redo_takesLast(s, freshId) ==
    IF Len(s.future) = 0
    THEN s
    ELSE [id |-> freshId,
          past |-> s.past \o <<At(s.future, Len(s.future) - 1)>>,
          present |-> At(s.future, Len(s.future) - 1),
          future |-> slice(s.future, 0, Len(s.future) - 1)]

\* case 'REDO'
redo(s, freshId) ==
    IF Len(s.future) = 0
    THEN s
    ELSE [id |-> freshId,
          past |-> s.past \o <<At(s.future, 0)>>,
          present |-> At(s.future, 0),
          future |-> slice(s.future, 1, Len(s.future))]

\* Variant of createUndoLevel that keeps future.
createUndoLevel_keepsFuture(s, freshId) ==
    IF At(s.past, Len(s.past) - 1) = s.present
    THEN s
    ELSE [id |-> freshId,
          past |-> s.past \o <<s.present>>,
          present |-> s.present,
          future |-> s.future]

\* Variant of createUndoLevel without the "already has this level" test on
\* the object returned.
createUndoLevel_alwaysNew(s, freshId) ==
    IF At(s.past, Len(s.past) - 1) = s.present
    THEN [s EXCEPT !.id = freshId]
    ELSE [id |-> freshId,
          past |-> s.past \o <<s.present>>,
          present |-> s.present,
          future |-> <<>>]

\* case 'CREATE_UNDO_LEVEL'
createUndoLevel(s, freshId) ==
    IF At(s.past, Len(s.past) - 1) = s.present
    THEN s
    ELSE [id |-> freshId,
          past |-> s.past \o <<s.present>>,
          present |-> s.present,
          future |-> <<>>]

\* Variant of reset that seeds an empty past.
reset_emptyPast(nextPresent, freshId) ==
    [id |-> freshId,
     past |-> <<>>,
     present |-> nextPresent,
     future |-> <<>>]

\* The code after the switch, for a reset type.
reset(nextPresent, freshId) ==
    [id |-> freshId,
     past |-> <<nextPresent>>,
     present |-> nextPresent,
     future |-> <<>>]

\* Variant of edit that clears future.
edit_clearsFuture(s, nextPresent, freshId) ==
    IF s.present = nextPresent
    THEN s
    ELSE [id |-> freshId,
          past |-> s.past,
          present |-> nextPresent,
          future |-> <<>>]

\* Variant of edit without the present === nextPresent test.
edit_alwaysNew(s, nextPresent, freshId) ==
    [id |-> freshId,
     past |-> s.past,
     present |-> nextPresent,
     future |-> s.future]

\* The code after the switch, for a type that is not a reset type.
edit(s, nextPresent, freshId) ==
    IF s.present = nextPresent
    THEN s
    ELSE [id |-> freshId,
          past |-> s.past,
          present |-> nextPresent,
          future |-> s.future]

\* The code after the switch.
dispatchOther(opts, s, type, freshId, freshRef) ==
    LET nextPresent == counter(s.present, type, freshRef)
    IN  IF includes(opts.resetTypes, type)
        THEN reset(nextPresent, freshId)
        ELSE edit(s, nextPresent, freshId)

\* The enhanced reducer: ( state = initialState, action ) => ...
\* init is the initialState object of the closure.
withHistory(opts, init, stateArg, type, freshId, freshRef) ==
    LET s == IF stateArg = UndefinedState THEN init ELSE stateArg
    IN  CASE type = "UNDO" -> undo(s, freshId)
          [] type = "REDO" -> redo(s, freshId)
          [] type = "CREATE_UNDO_LEVEL" -> createUndoLevel(s, freshId)
          [] OTHER -> dispatchOther(opts, s, type, freshId, freshRef)

\* Variant of reducerCalls in which CREATE_UNDO_LEVEL falls through to the
\* base reducer.
reducerCalls_forwardsControl(s, type) ==
    CASE type = "UNDO" -> <<>>
      [] type = "REDO" -> <<>>
      [] OTHER -> <<[state |-> s.present, type |-> type]>>

\* The calls of the base reducer made by one call of the enhanced reducer,
\* as [state, type] arguments: every case of the switch returns, the code
\* after it calls reducer( present, action ).
reducerCalls(s, type) ==
    CASE type = "UNDO" -> <<>>
      [] type = "REDO" -> <<>>
      [] type = "CREATE_UNDO_LEVEL" -> <<>>
      [] OTHER -> <<[state |-> s.present, type |-> type]>>

----------------------------------------------------------------------------
\* withHistory, buffered version.

\* initialState: reducer( undefined, {} ) is called once for present and
\* once for buffer.
initialStateBuffered(freshId, freshRef) ==
    [id |-> freshId,
     past |-> <<>>,
     present |-> counter(Undefined, EmptyType, freshRef),
     buffer |-> counter(Undefined, EmptyType, freshRef + 1),
     future |-> <<>>]

\* Variant of undoBuffered that leaves buffer in place when it discards it.
undoBuffered_keepsBuffer(s, freshId) ==
    IF s.present # s.buffer
    THEN [id |-> freshId,
          past |-> slice(s.past, 0, Len(s.past) - 1),
          present |-> s.present,
          buffer |-> s.buffer,
          future |-> <<s.buffer>> \o s.future]
    ELSE IF Len(s.past) = 0
    THEN s
    ELSE [id |-> freshId,
          past |-> slice(s.past, 0, Len(s.past) - 1),
          present |-> At(s.past, Len(s.past) - 1),
          buffer |-> At(s.past, Len(s.past) - 1),
          future |-> <<s.present>> \o s.future]

\* case 'UNDO'
undoBuffered(s, freshId) ==
    IF s.present # s.buffer
    THEN [id |-> freshId,
          past |-> slice(s.past, 0, Len(s.past) - 1),
          present |-> s.present,
          buffer |-> s.present,
          future |-> <<s.buffer>> \o s.future]
    ELSE IF Len(s.past) = 0
    THEN s
    ELSE [id |-> freshId,
          past |-> slice(s.past, 0, Len(s.past) - 1),
          present |-> At(s.past, Len(s.past) - 1),
          buffer |-> At(s.past, Len(s.past) - 1),
          future |-> <<s.present>> \o s.future]

\* Variant of redoBuffered that appends the replayed entry to past.
redoBuffered_pushesFuture(s, freshId) ==
    IF Len(s.future) = 0
    THEN s
    ELSE [id |-> freshId,
          past |-> s.past \o <<At(s.future, 0)>>,
          present |-> At(s.future, 0),
          buffer |-> At(s.future, 0),
          future |-> slice(s.future, 1, Len(s.future))]

\* case 'REDO'
redoBuffered(s, freshId) ==
    IF Len(s.future) = 0
    THEN s
    ELSE [id |-> freshId,
          past |-> s.past \o <<s.present>>,
          present |-> At(s.future, 0),
          buffer |-> At(s.future, 0),
          future |-> slice(s.future, 1, Len(s.future))]

\* Variant of createUndoLevelBuffered that keeps future.
createUndoLevelBuffered_keepsFuture(s, freshId) ==
    IF s.present = s.buffer
    THEN s
    ELSE [id |-> freshId,
          past |-> s.past \o <<s.present>>,
          present |-> s.buffer,
          buffer |-> s.buffer,
          future |-> s.future]

\* case 'CREATE_UNDO_LEVEL'
createUndoLevelBuffered(s, freshId) ==
    IF s.present = s.buffer
    THEN s
    ELSE [id |-> freshId,
          past |-> s.past \o <<s.present>>,
          present |-> s.buffer,
          buffer |-> s.buffer,
          future |-> <<>>]

\* Variant of resetBuffered that seeds past with the new present.
resetBuffered_seedsPast(nextBuffer, freshId) ==
    [id |-> freshId,
     past |-> <<nextBuffer>>,
     present |-> nextBuffer,
     buffer |-> nextBuffer,
     future |-> <<>>]

\* The code after the switch, for a reset type.
resetBuffered(nextBuffer, freshId) ==
    [id |-> freshId,
     past |-> <<>>,
     present |-> nextBuffer,
     buffer |-> nextBuffer,
     future |-> <<>>]

\* Variant of editBuffered that also moves present.
editBuffered_movesPresent(s, nextBuffer, freshId) ==
    IF s.buffer = nextBuffer
    THEN s
    ELSE [id |-> freshId,
          past |-> s.past,
          present |-> nextBuffer,
          buffer |-> nextBuffer,
          future |-> s.future]

\* The code after the switch, for a type that is not a reset type.
editBuffered(s, nextBuffer, freshId) ==
    IF s.buffer = nextBuffer
    THEN s
    ELSE [id |-> freshId,
          past |-> s.past,
          present |-> s.present,
          buffer |-> nextBuffer,
          future |-> s.future]

\* The code after the switch.
dispatchOtherBuffered(opts, s, type, freshId, freshRef) ==
    LET nextBuffer == counter(s.buffer, type, freshRef)
    IN  IF includes(opts.resetTypes, type)
        THEN resetBuffered(nextBuffer, freshId)
        ELSE editBuffered(s, nextBuffer, freshId)

\* The enhanced reducer: ( state = initialState, action ) => ...
withHistoryBuffered(opts, init, stateArg, type, freshId, freshRef) ==
    LET s == IF stateArg = UndefinedStateBuffered THEN init ELSE stateArg
    IN  CASE type = "UNDO" -> undoBuffered(s, freshId)
          [] type = "REDO" -> redoBuffered(s, freshId)
          [] type = "CREATE_UNDO_LEVEL" -> createUndoLevelBuffered(s, freshId)
          [] OTHER -> dispatchOtherBuffered(opts, s, type, freshId, freshRef)

\* The calls of the base reducer made by one call of the enhanced reducer:
\* the code after the switch calls reducer( buffer, action ).
reducerCallsBuffered(s, type) ==
    CASE type = "UNDO" -> <<>>
      [] type = "REDO" -> <<>>
      [] type = "CREATE_UNDO_LEVEL" -> <<>>
      [] OTHER -> <<[state |-> s.buffer, type |-> type]>>

----------------------------------------------------------------------------
\* Selectors (src/editor/store/selectors.js) over the application state
\* { editor, ... }.

hasEditorUndo(appState) == Len(appState.editor.past) > 0

\* Variant of hasEditorRedo that asks for two redo entries.
hasEditorRedo_atLeastTwo(appState) == Len(appState.editor.future) > 1

hasEditorRedo(appState) == Len(appState.editor.future) > 0

----------------------------------------------------------------------------
\* Observers used by the properties (=== on objects is = on identities;
\* an identity determines the object's content).

Pending(s) == At(s.past, Len(s.past) - 1) # s.present

SameObject(s, t) == s.id = t.id

SameContents(s, t) ==
    /\ s.past = t.past
    /\ s.present = t.present
    /\ s.future = t.future

IsEdit(opts, s, type) ==
    /\ type \notin ControlTypes
    /\ ~includes(opts.resetTypes, type)
    /\ counter(s.present, type, nextRef) # s.present

\* The documents obtained by base-reducer applications since the last
\* UNDO, REDO, CREATE_UNDO_LEVEL or reset: restart says whether this call
\* is such an action, result is the state the call returned.
NextApplied(chain, restart, s, type, result, freshRef) ==
    IF restart
    THEN <<result.present>>
    ELSE IF counter(s.present, type, freshRef) # s.present
    THEN Append(chain, counter(s.present, type, freshRef))
    ELSE chain

\* Position of the run in the pattern
\*   (edit CREATE_UNDO_LEVEL)* UNDO REDO
NextRun(r, opts, s, type) ==
    CASE r = "committed" /\ IsEdit(opts, s, type) -> "editing"
      [] r = "editing" /\ type = "CREATE_UNDO_LEVEL" -> "committed"
      [] r = "committed" /\ type = "UNDO" -> "undone"
      [] r = "undone" /\ type = "REDO" -> "redone"
      [] OTHER -> "other"

----------------------------------------------------------------------------
\* The store: withHistory( counter, options ) is created, the store calls
\* the reducer with undefined state and the empty action, then dispatches.

TheInitialState == initialState(1, 1)

TheInitialStateBuffered == initialStateBuffered(1, 1)

Init ==
    /\ options \in {[resetTypes |-> rt] : rt \in ResetTypeChoices}
    /\ state = withHistory(options, TheInitialState, UndefinedState, EmptyType, 2, 2)
    /\ prev = UndefinedState
    /\ prev2 = UndefinedState
    /\ calls = reducerCalls(TheInitialState, EmptyType)
    /\ bstate = withHistoryBuffered(options, TheInitialStateBuffered,
                                    UndefinedStateBuffered, EmptyType, 2, 3)
    /\ bprev = UndefinedStateBuffered
    /\ bcalls = reducerCallsBuffered(TheInitialStateBuffered, EmptyType)
    /\ bnextId = 2
    /\ bnextRef = 3
    /\ action = EmptyType
    /\ action2 = EmptyType
    /\ run = "committed"
    /\ applied = <<state.present>>
    /\ appliedEff = <<state.present>>
    /\ nextId = 2
    /\ nextRef = 2

\* The buffered version allocates one more document when it is created.
CanAllocate ==
    /\ nextId <= MaxObjs
    /\ nextRef <= MaxDocs
    /\ bnextId <= MaxObjs
    /\ bnextRef <= MaxDocs + 1

\* One call of the enhanced reducer by the store.
Dispatch(type) ==
    /\ state' = withHistory(options, TheInitialState, state, type, nextId, nextRef)
    /\ prev' = state
    /\ prev2' = prev
    /\ calls' = reducerCalls(state, type)
    /\ bstate' = withHistoryBuffered(options, TheInitialStateBuffered, bstate,
                                     type, bnextId, bnextRef)
    /\ bprev' = bstate
    /\ bcalls' = reducerCallsBuffered(bstate, type)
    /\ bnextId' = IF bstate'.id = bnextId THEN bnextId + 1 ELSE bnextId
    /\ bnextRef' = IF type \notin ControlTypes
                      /\ counter(bstate.buffer, type, bnextRef).ref = bnextRef
                   THEN bnextRef + 1 ELSE bnextRef
    /\ action' = type
    /\ action2' = action
    /\ run' = NextRun(run, options, state, type)
    /\ applied' = NextApplied(applied,
                              type \in ControlTypes
                                  \/ includes(options.resetTypes, type),
                              state, type, state', nextRef)
    /\ appliedEff' = NextApplied(appliedEff,
                                 /\ type \in ControlTypes
                                        \/ includes(options.resetTypes, type)
                                 /\ ~(type = "REDO" /\ Len(state.future) = 0),
                                 state, type, state', nextRef)
    /\ nextId' = IF state'.id = nextId THEN nextId + 1 ELSE nextId
    /\ nextRef' = IF type \notin ControlTypes
                     /\ counter(state.present, type, nextRef).ref = nextRef
                  THEN nextRef + 1 ELSE nextRef
    /\ UNCHANGED options

DispatchUndo ==
    /\ CanAllocate
    /\ Dispatch("UNDO")

DispatchRedo ==
    /\ CanAllocate
    /\ Dispatch("REDO")

DispatchCreateUndoLevel ==
    /\ CanAllocate
    /\ Dispatch("CREATE_UNDO_LEVEL")

DispatchOther ==
    \E type \in OtherTypes :
        /\ CanAllocate
        /\ Dispatch(type)

Next ==
    \/ DispatchUndo
    \/ DispatchRedo
    \/ DispatchCreateUndoLevel
    \/ DispatchOther

Spec == Init /\ [][Next]_vars

----------------------------------------------------------------------------
\* Properties of the merged-present reducer.  prev and action are the
\* arguments of the last call and state is its result.

\* Identity of the document object allocated last.
LastRef == nextRef - 1

\* C1: UNDO with a pending provisional edit (present is not the last element
\* of past) returns a state whose present is that last past element, whose
\* past is unchanged and whose future is the old present followed by the
\* old future.
UndoOfPendingEdit ==
    (action = "UNDO" /\ Pending(prev)) =>
        /\ state.present = At(prev.past, Len(prev.past) - 1)
        /\ state.past = prev.past
        /\ state.future = <<prev.present>> \o prev.future

UndoOfPendingEditWitness ==
    /\ action = "UNDO"
    /\ Pending(prev)
    /\ Len(prev.past) >= 2
    /\ Len(prev.future) >= 1

\* C2: UNDO with no pending edit and at least two elements in past removes
\* the last element of past, sets present to the new last element and puts
\* the removed value at the front of future.
UndoOfCommittedLevel ==
    (action = "UNDO" /\ ~Pending(prev) /\ Len(prev.past) >= 2) =>
        /\ state.past = SubSeq(prev.past, 1, Len(prev.past) - 1)
        /\ state.present = state.past[Len(state.past)]
        /\ state.future = <<prev.past[Len(prev.past)]>> \o prev.future

UndoOfCommittedLevelWitness ==
    /\ action = "UNDO"
    /\ ~Pending(prev)
    /\ Len(prev.past) >= 3
    /\ Len(prev.future) >= 1

\* C3: REDO with a non-empty future removes the first element of future,
\* appends it to past and makes it present; the rest of future keeps its
\* order.
RedoMovesFirstFuture ==
    (action = "REDO" /\ Len(prev.future) >= 1) =>
        /\ state.past = Append(prev.past, Head(prev.future))
        /\ state.present = Head(prev.future)
        /\ state.future = Tail(prev.future)

RedoMovesFirstFutureWitness ==
    /\ action = "REDO"
    /\ Len(prev.future) >= 2
    /\ Len(prev.past) >= 2

\* C4: CREATE_UNDO_LEVEL with a pending edit appends present to past, keeps
\* present and empties future; without a pending edit it returns the input
\* state itself.
CreateUndoLevelCommits ==
    (action = "CREATE_UNDO_LEVEL") =>
        IF Pending(prev)
        THEN /\ state.past = Append(prev.past, prev.present)
             /\ state.present = prev.present
             /\ state.future = <<>>
        ELSE /\ SameObject(state, prev)
             /\ state = prev

CreateUndoLevelCommitsWitness ==
    /\ action = "CREATE_UNDO_LEVEL"
    /\ Pending(prev)
    /\ Len(prev.future) >= 1

\* C5: an action that is neither a control action nor a reset type and for
\* which the base reducer returns a new reference yields that reference as
\* present and leaves past and future as they were.
EditChangesOnlyPresent ==
    (/\ action \notin ControlTypes
     /\ ~includes(options.resetTypes, action)
     /\ prev # UndefinedState
     /\ counter(prev.present, action, LastRef) # prev.present) =>
        /\ state.present = counter(prev.present, action, LastRef)
        /\ state.past = prev.past
        /\ state.future = prev.future

EditChangesOnlyPresentWitness ==
    /\ action = "INCREMENT"
    /\ ~includes(options.resetTypes, action)
    /\ state.present # prev.present
    /\ Len(prev.future) >= 1
    /\ Len(prev.past) >= 2

\* C6: an action whose type is in options.resetTypes yields a past of
\* length 1, an empty future, and past[0] and present both the result of
\* the base reducer on the old present, also when that result is the old
\* present.
ResetCollapsesHistory ==
    (action \notin ControlTypes /\ includes(options.resetTypes, action)) =>
        /\ Len(state.past) = 1
        /\ state.future = <<>>
        /\ state.past[1] = counter(prev.present, action, LastRef)
        /\ state.present = counter(prev.present, action, LastRef)

ResetCollapsesHistoryWitness ==
    /\ includes(options.resetTypes, action)
    /\ Len(prev.past) >= 2
    /\ Len(prev.future) >= 1
    /\ Pending(prev)
    /\ state.present = prev.present

\* A reset whose base-reducer result is a new reference.
ResetWithNewPresentWitness ==
    /\ includes(options.resetTypes, action)
    /\ state.present # prev.present
    /\ prev # UndefinedState

\* C7: called with undefined state, the reducer starts from a history whose
\* past has exactly one element, reference-equal to present, whose present
\* is the base reducer's result for undefined state and the empty action,
\* and whose future is empty.
InitialHistory ==
    (prev = UndefinedState) =>
        /\ Len(state.past) = 1
        /\ state.past[1] = state.present
        /\ state.present.ref # Undefined.ref
        /\ state.present.count = counter(Undefined, EmptyType, nextRef).count
        /\ state.future = <<>>

InitialHistoryWitness ==
    /\ prev = UndefinedState
    /\ action = EmptyType
    /\ SameObject(state, TheInitialState)

\* C8 as stated: with no provisional edit pending, UNDO then REDO returns
\* the very object the pair started from.
UndoRedoReturnsSameObject ==
    (/\ action2 = "UNDO"
     /\ action = "REDO"
     /\ ~Pending(prev2)) =>
        SameObject(state, prev2)

\* C8 amended: with no provisional edit pending and at least two elements
\* in past, UNDO then REDO returns a new object whose past, present and
\* future hold the same references in the same order as before the pair;
\* with one element in past and an empty future both steps return the
\* input object itself.
UndoRedoRestoresContents ==
    (/\ action2 = "UNDO"
     /\ action = "REDO"
     /\ ~Pending(prev2)) =>
        /\ Len(prev2.past) >= 2 =>
              SameContents(state, prev2) /\ ~SameObject(state, prev2)
        /\ (Len(prev2.past) < 2 /\ Len(prev2.future) = 0) =>
              SameObject(state, prev2) /\ state = prev2

UndoRedoRestoresContentsWitness ==
    /\ action2 = "UNDO"
    /\ action = "REDO"
    /\ ~Pending(prev2)
    /\ Len(prev2.past) >= 2
    /\ Len(prev2.future) >= 1

\* C9: in a state reached from the initial state by committed edits (each
\* edit followed by CREATE_UNDO_LEVEL), UNDO followed immediately by REDO
\* yields a state whose present is the present before the UNDO.
UndoRedoRestoresPresent ==
    (run = "redone") => state.present = prev2.present

UndoRedoRestoresPresentWitness ==
    /\ run = "redone"
    /\ action2 = "UNDO"
    /\ action = "REDO"
    /\ Len(prev2.past) >= 3
    /\ ~SameObject(state, prev2)

\* C10: CREATE_UNDO_LEVEL applied twice in a row returns the very object
\* returned by the first application.
CreateUndoLevelIdempotent ==
    (action2 = "CREATE_UNDO_LEVEL" /\ action = "CREATE_UNDO_LEVEL") =>
        /\ SameObject(state, prev)
        /\ state = prev

CreateUndoLevelIdempotentWitness ==
    /\ action2 = "CREATE_UNDO_LEVEL"
    /\ action = "CREATE_UNDO_LEVEL"
    /\ ~SameObject(prev, prev2)
    /\ SameObject(state, prev)

\* C11: UNDO on a state with past.length = 1 and no pending edit, and REDO
\* on a state with empty future, return the input object itself.
BoundaryNoOps ==
    /\ (action = "UNDO" /\ Len(prev.past) = 1 /\ ~Pending(prev)) =>
          SameObject(state, prev) /\ state = prev
    /\ (action = "REDO" /\ prev # UndefinedState /\ Len(prev.future) = 0) =>
          SameObject(state, prev) /\ state = prev

BoundaryNoOpsWitness ==
    /\ action2 = "REDO"
    /\ prev2 # UndefinedState
    /\ Len(prev2.future) = 0
    /\ action = "UNDO"
    /\ Len(prev.past) = 1
    /\ ~Pending(prev)
    /\ SameObject(state, prev2)

\* C12: for an action that is neither a control action nor a reset type,
\* if the base reducer returns present by the same reference the reducer
\* returns the input history object itself.
NoOpEditStability ==
    (/\ action \notin ControlTypes
     /\ ~includes(options.resetTypes, action)
     /\ prev # UndefinedState
     /\ counter(prev.present, action, LastRef) = prev.present) =>
        /\ SameObject(state, prev)
        /\ state = prev

NoOpEditStabilityWitness ==
    /\ action \in OtherTypes
    /\ ~includes(options.resetTypes, action)
    /\ prev # UndefinedState
    /\ Pending(prev)
    /\ Len(prev.future) >= 1
    /\ SameObject(state, prev)

\* C13: for every action, whenever the result has the same past, present
\* and future as the input, the result is the input object itself.
ReferenceStability ==
    (prev # UndefinedState /\ SameContents(state, prev)) =>
        SameObject(state, prev)

\* C14 as stated: the base reducer is not invoked for UNDO, REDO and
\* CREATE_UNDO_LEVEL and is invoked exactly once, with the current present,
\* for every other action, in both versions of the reducer.
BaseReducerCalledWithPresent ==
    /\ (action \in ControlTypes) => (calls = <<>> /\ bcalls = <<>>)
    /\ (action \notin ControlTypes /\ prev # UndefinedState) =>
          /\ calls = <<[state |-> prev.present, type |-> action]>>
          /\ bcalls = <<[state |-> bprev.present, type |-> action]>>

\* C14 amended: the base reducer is not invoked for UNDO, REDO and
\* CREATE_UNDO_LEVEL and is invoked exactly once for every other action,
\* with the current present in the merged-present version and with the
\* current buffer in the buffered version.
ControlActionsNotForwarded ==
    /\ (action \in ControlTypes) => (calls = <<>> /\ bcalls = <<>>)
    /\ (action \notin ControlTypes /\ prev # UndefinedState) =>
          /\ calls = <<[state |-> prev.present, type |-> action]>>
          /\ bcalls = <<[state |-> bprev.buffer, type |-> action]>>

ControlActionsNotForwardedWitness ==
    /\ action2 = "INCREMENT"
    /\ action = "CREATE_UNDO_LEVEL"
    /\ Pending(prev)
    /\ bprev.buffer # bprev.present
    /\ calls = <<>>
    /\ bcalls = <<>>

\* C15: past of the merged-present reducer has at least one element in
\* every reachable state.
PastNeverEmpty == Len(state.past) >= 1

PastNeverEmptyWitness ==
    /\ action = "UNDO"
    /\ ~Pending(prev)
    /\ Len(prev.past) = 2
    /\ Len(state.past) = 1

\* C17: every result of the merged-present reducer has a defined present,
\* a non-empty past and a future sequence, none of whose elements comes
\* from a read outside past or future.
WellFormedHistory ==
    /\ state.present # Undefined
    /\ Len(state.past) >= 1
    /\ \A i \in 1..Len(state.past) : state.past[i] # Undefined
    /\ \A i \in 1..Len(state.future) : state.future[i] # Undefined

WellFormedHistoryWitness ==
    /\ action = "UNDO"
    /\ Len(prev.past) = 1
    /\ Pending(prev)
    /\ Len(prev.future) >= 1
    /\ state.present = prev.past[1]

----------------------------------------------------------------------------
\* Properties of the buffered reducer.  bprev and action are the arguments
\* of the last call and bstate is its result.

\* Identity of the document object allocated last by the buffered version.
LastRefBuffered == bnextRef - 1

\* The document values of a sequence of document objects (two runs never
\* share objects, their histories are compared by value).
Counts(seq) == [i \in 1..Len(seq) |-> seq[i].count]

\* C18: run side by side on the same actions, the two versions keep
\* merged.past = buffered.past followed by buffered.present,
\* merged.present = buffered.buffer and merged.future = buffered.future.
DesignsEquivalent ==
    /\ Counts(state.past) = Counts(bstate.past \o <<bstate.present>>)
    /\ state.present.count = bstate.buffer.count
    /\ Counts(state.future) = Counts(bstate.future)

\* C19: UNDO of the buffered reducer with a pending buffer keeps present,
\* sets buffer to present, puts the old buffer at the front of future and
\* leaves past unchanged.
UndoOfPendingBuffer ==
    (action = "UNDO" /\ bprev # UndefinedStateBuffered
     /\ bprev.buffer # bprev.present) =>
        /\ bstate.present = bprev.present
        /\ bstate.buffer = bprev.present
        /\ bstate.future = <<bprev.buffer>> \o bprev.future
        /\ bstate.past = bprev.past

\* C20: for an action that is neither a control action nor a reset type
\* the buffered reducer changes only buffer, to the base reducer's result
\* on the old buffer, and returns the input object itself when that result
\* is the old buffer.
EditChangesOnlyBuffer ==
    (/\ action \notin ControlTypes
     /\ ~includes(options.resetTypes, action)
     /\ bprev # UndefinedStateBuffered) =>
        /\ bstate.buffer = counter(bprev.buffer, action, LastRefBuffered)
        /\ bstate.past = bprev.past
        /\ bstate.present = bprev.present
        /\ bstate.future = bprev.future
        /\ (bstate.buffer = bprev.buffer) =>
              (bstate.id = bprev.id /\ bstate = bprev)

EditChangesOnlyBufferWitness ==
    /\ action = "INCREMENT"
    /\ ~includes(options.resetTypes, action)
    /\ bstate.buffer # bprev.buffer
    /\ Len(bprev.past) >= 1
    /\ Len(bprev.future) >= 1

\* C21: CREATE_UNDO_LEVEL of the buffered reducer with a pending buffer
\* appends the old present to past, makes buffer the present, keeps buffer
\* and empties future; without a pending buffer it returns the input
\* object, so a second CREATE_UNDO_LEVEL in a row changes nothing.
CreateUndoLevelBufferedCommits ==
    /\ (action = "CREATE_UNDO_LEVEL" /\ bprev # UndefinedStateBuffered) =>
          IF bprev.buffer # bprev.present
          THEN /\ bstate.past = Append(bprev.past, bprev.present)
               /\ bstate.present = bprev.buffer
               /\ bstate.buffer = bprev.buffer
               /\ bstate.future = <<>>
          ELSE /\ bstate.id = bprev.id
               /\ bstate = bprev
    /\ (action2 = "CREATE_UNDO_LEVEL" /\ action = "CREATE_UNDO_LEVEL") =>
          (bstate.id = bprev.id /\ bstate = bprev)

CreateUndoLevelBufferedCommitsWitness ==
    /\ action = "CREATE_UNDO_LEVEL"
    /\ bprev.buffer # bprev.present
    /\ Len(bprev.past) >= 1
    /\ Len(bprev.future) >= 1

\* C22: in the buffered reducer, UNDO with no pending buffer and a
\* non-empty past moves present to the front of future and makes the last
\* past element present and buffer, removing it from past; REDO with a
\* non-empty future appends present to past and makes the first future
\* element present and buffer; UNDO with empty past and no pending buffer
\* and REDO with empty future return the input object.
UndoRedoBufferedLevels ==
    /\ (action = "UNDO" /\ bprev # UndefinedStateBuffered
        /\ bprev.buffer = bprev.present) =>
          IF Len(bprev.past) >= 1
          THEN /\ bstate.future = <<bprev.present>> \o bprev.future
               /\ bstate.present = bprev.past[Len(bprev.past)]
               /\ bstate.buffer = bprev.past[Len(bprev.past)]
               /\ bstate.past = SubSeq(bprev.past, 1, Len(bprev.past) - 1)
          ELSE bstate.id = bprev.id /\ bstate = bprev
    /\ (action = "REDO" /\ bprev # UndefinedStateBuffered) =>
          IF Len(bprev.future) >= 1
          THEN /\ bstate.past = Append(bprev.past, bprev.present)
               /\ bstate.present = Head(bprev.future)
               /\ bstate.buffer = Head(bprev.future)
               /\ bstate.future = Tail(bprev.future)
          ELSE bstate.id = bprev.id /\ bstate = bprev

UndoRedoBufferedLevelsWitness ==
    /\ action2 = "UNDO"
    /\ action = "REDO"
    /\ Len(bprev.future) >= 2
    /\ Len(bprev.past) >= 1
    /\ bprev.buffer = bprev.present

\* C23: an action whose type is in options.resetTypes makes the buffered
\* reducer return empty past and future, with present and buffer both the
\* base reducer's result on the old buffer.
ResetBufferedCollapsesHistory ==
    (action \notin ControlTypes /\ includes(options.resetTypes, action)) =>
        /\ bstate.past = <<>>
        /\ bstate.future = <<>>
        /\ bstate.present = counter(bprev.buffer, action, LastRefBuffered)
        /\ bstate.buffer = counter(bprev.buffer, action, LastRefBuffered)

ResetBufferedCollapsesHistoryWitness ==
    /\ includes(options.resetTypes, action)
    /\ Len(bprev.past) >= 1
    /\ Len(bprev.future) >= 1
    /\ bprev.buffer # bprev.present

\* An UNDO, REDO, CREATE_UNDO_LEVEL or reset action.
IsHistoryAction(type) ==
    type \in ControlTypes \/ includes(options.resetTypes, type)

\* C24 as stated: in the buffered reducer, after any UNDO, REDO,
\* CREATE_UNDO_LEVEL or reset action dispatched on a state that itself
\* results from such an action, present and buffer are the same reference.
NoBufferAfterHistoryAction ==
    (IsHistoryAction(action2) /\ IsHistoryAction(action)) =>
        bstate.present = bstate.buffer

\* C24 amended: after any UNDO, CREATE_UNDO_LEVEL or reset action, and
\* after any REDO dispatched with a non-empty future, present and buffer
\* are the same reference; a REDO dispatched with an empty future returns
\* its input, pending buffer included.
NoBufferAfterEffectiveHistoryAction ==
    /\ (/\ IsHistoryAction(action)
        /\ (action = "REDO" => Len(bprev.future) >= 1)) =>
          bstate.present = bstate.buffer
    /\ (action = "REDO" /\ bprev # UndefinedStateBuffered
        /\ Len(bprev.future) = 0) =>
          bstate = bprev

NoBufferAfterEffectiveHistoryActionWitness ==
    /\ action = "UNDO"
    /\ bprev.buffer # bprev.present
    /\ Len(bprev.future) >= 1
    /\ bstate.present = bstate.buffer

----------------------------------------------------------------------------
\* Further properties of the merged-present reducer.

\* C25 as stated: after any UNDO, REDO, CREATE_UNDO_LEVEL or reset action
\* the last element of past is present.
NoPendingAfterHistoryAction ==
    IsHistoryAction(action) => ~Pending(state)

\* C25 amended: after any UNDO, CREATE_UNDO_LEVEL or reset action, and after
\* any REDO dispatched with a non-empty future, the last element of past is
\* present; the two come to differ only by an ordinary edit that changed
\* present, and a REDO dispatched with an empty future returns its input,
\* pending edit included.
NoPendingAfterEffectiveHistoryAction ==
    /\ (/\ IsHistoryAction(action)
        /\ (action = "REDO" => Len(prev.future) >= 1)) =>
          ~Pending(state)
    /\ (Pending(state) /\ prev # UndefinedState /\ ~Pending(prev)) =>
          /\ ~IsHistoryAction(action)
          /\ state.present # prev.present
    /\ (action = "REDO" /\ prev # UndefinedState /\ Len(prev.future) = 0) =>
          state = prev

NoPendingAfterEffectiveHistoryActionWitness ==
    /\ action2 = "INCREMENT"
    /\ action = "REDO"
    /\ Pending(prev)
    /\ Len(prev.future) >= 1
    /\ ~Pending(state)

\* The elements of a sequence.
Elements(seq) == {seq[i] : i \in 1..Len(seq)}

\* present is the last element of past, or the end of a chain of at least
\* one base-reducer application that starts at the last element of past,
\* and then it is neither a checkpoint nor a redo entry.
PresentDerivedBy(chain) ==
    \/ ~Pending(state)
    \/ /\ Len(chain) >= 2
       /\ chain[1] = At(state.past, Len(state.past) - 1)
       /\ chain[Len(chain)] = state.present
       /\ state.present \notin Elements(state.past)
       /\ state.present \notin Elements(state.future)

\* C26 as stated: present is the last element of past or was obtained from
\* it by one or more base-reducer applications made since the last UNDO,
\* REDO, CREATE_UNDO_LEVEL or reset.
PresentFromLastPast == PresentDerivedBy(applied)

\* C26 amended: present is the last element of past or was obtained from it
\* by one or more base-reducer applications made since the last UNDO,
\* CREATE_UNDO_LEVEL, reset or REDO with a non-empty future; it is never an
\* older checkpoint and never a value of future.
PresentFromLastPastSinceEffective == PresentDerivedBy(appliedEff)

PresentFromLastPastSinceEffectiveWitness ==
    /\ Pending(state)
    /\ Len(appliedEff) >= 3
    /\ Len(state.past) >= 2
    /\ Len(state.future) >= 1

\* C27: future becomes empty only by a committing CREATE_UNDO_LEVEL, a
\* reset or a REDO of its last entry; an effective REDO removes exactly its
\* first element, an effective UNDO adds exactly the old present at its
\* front, and an ordinary edit leaves it as it was.
FutureEvolution ==
    (prev # UndefinedState) =>
        /\ (Len(prev.future) >= 1 /\ Len(state.future) = 0) =>
              \/ action = "CREATE_UNDO_LEVEL" /\ Pending(prev)
              \/ action \notin ControlTypes
                    /\ includes(options.resetTypes, action)
              \/ action = "REDO" /\ Len(prev.future) = 1
        /\ (action = "REDO" /\ Len(prev.future) >= 1) =>
              state.future = Tail(prev.future)
        /\ (action = "UNDO" /\ ~SameObject(state, prev)) =>
              state.future = <<prev.present>> \o prev.future
        /\ (action = "UNDO" /\ SameObject(state, prev)) =>
              state.future = prev.future
        /\ (action \notin ControlTypes
            /\ ~includes(options.resetTypes, action)) =>
              state.future = prev.future

FutureEvolutionWitness ==
    /\ action2 = "UNDO"
    /\ action = "INCREMENT"
    /\ ~includes(options.resetTypes, action)
    /\ Len(prev.future) >= 2
    /\ state.future = prev.future
    /\ Pending(state)

\* C28: after a REDO with a non-empty future the present it replaced is
\* still an element of past or of future.
RedoKeepsPresent ==
    (action = "REDO" /\ Len(prev.future) >= 1) =>
        prev.present \in Elements(state.past) \cup Elements(state.future)

\* The sequence past, then present if an edit is pending, then future.
Timeline(s) ==
    s.past \o (IF Pending(s) THEN <<s.present>> ELSE <<>>) \o s.future

\* C29: UNDO leaves the sequence past, present if pending, future as it
\* was.
UndoConservesTimeline ==
    (action = "UNDO") => Timeline(state) = Timeline(prev)

UndoConservesTimelineWitness ==
    /\ action2 = "UNDO"
    /\ action = "UNDO"
    /\ Pending(prev2)
    /\ Len(prev2.past) >= 2
    /\ ~SameObject(state, prev)
    /\ Len(Timeline(state)) >= 4

\* C30: from a state with a pending edit, UNDO then REDO yields the same
\* present, the same future and the old past with that present appended.
UndoRedoCommitsPendingEdit ==
    (action2 = "UNDO" /\ action = "REDO" /\ Pending(prev2)) =>
        /\ state.present = prev2.present
        /\ state.future = prev2.future
        /\ state.past = Append(prev2.past, prev2.present)

UndoRedoCommitsPendingEditWitness ==
    /\ action2 = "UNDO"
    /\ action = "REDO"
    /\ Pending(prev2)
    /\ Len(prev2.future) >= 1
    /\ Len(state.past) = Len(prev2.past) + 1

\* The application state whose editor key holds the history s.
AppState(s) == [editor |-> s]

\* C31 as stated: past.length > 1 is true exactly when UNDO returns a state
\* different from its input.
HasUndoMatchesUndo ==
    (action = "UNDO" /\ prev # UndefinedState) =>
        ((Len(prev.past) > 1) <=> ~SameObject(state, prev))

\* C31 amended: UNDO returns a state different from its input exactly when
\* past.length > 1 or a provisional edit is pending; past.length > 1
\* implies that UNDO is effective, but with a pending edit and a single
\* element in past the test is false although UNDO is effective.
UndoEffectiveIffLevelOrPending ==
    (action = "UNDO" /\ prev # UndefinedState) =>
        /\ (Len(prev.past) > 1 \/ Pending(prev)) <=> ~SameObject(state, prev)
        /\ ~SameObject(state, prev) => ~SameContents(state, prev)
        /\ SameObject(state, prev) => state = prev

UndoEffectiveIffLevelOrPendingWitness ==
    /\ action = "UNDO"
    /\ Len(prev.past) = 1
    /\ Pending(prev)
    /\ ~SameObject(state, prev)
    /\ action2 = "INCREMENT"

\* C32: hasEditorUndo is false for the initial history and right after a
\* reset, and always has the value of past.length > 1.
HasEditorUndoAgrees ==
    /\ (prev = UndefinedState) => ~hasEditorUndo(AppState(state))
    /\ (action \notin ControlTypes /\ includes(options.resetTypes, action)) =>
          ~hasEditorUndo(AppState(state))
    /\ hasEditorUndo(AppState(state)) <=> (Len(state.past) > 1)

\* C33: in both versions hasEditorRedo is true exactly when REDO returns a
\* state different from its input.
HasEditorRedoMatchesRedo ==
    (action = "REDO" /\ prev # UndefinedState) =>
        /\ hasEditorRedo(AppState(prev)) <=> ~SameObject(state, prev)
        /\ hasEditorRedo(AppState(prev)) => ~SameContents(state, prev)
        /\ ~hasEditorRedo(AppState(prev)) => state = prev
        /\ hasEditorRedo(AppState(bprev)) <=> (bstate.id # bprev.id)
        /\ hasEditorRedo(AppState(bprev)) => bstate.future # bprev.future
        /\ ~hasEditorRedo(AppState(bprev)) => bstate = bprev

HasEditorRedoMatchesRedoWitness ==
    /\ action2 = "REDO"
    /\ action = "REDO"
    /\ Len(prev2.future) = 1
    /\ Pending(prev2)
    /\ ~SameObject(prev, prev2)
    /\ SameObject(state, prev)

\* UNDO dispatched k times on s, the objects created taking the identities
\* from freshId on.
RECURSIVE UndoTimes(_, _, _)
UndoTimes(s, k, freshId) ==
    IF k = 0
    THEN s
    ELSE UndoTimes(withHistory(options, TheInitialState, s, "UNDO", freshId,
                               nextRef),
                   k - 1, freshId + 1)

\* REDO dispatched k times on s.
RECURSIVE RedoTimes(_, _, _)
RedoTimes(s, k, freshId) ==
    IF k = 0
    THEN s
    ELSE RedoTimes(withHistory(options, TheInitialState, s, "REDO", freshId,
                               nextRef),
                   k - 1, freshId + 1)

\* C34: from every reachable state, dispatching only UNDO reaches within
\* past.length steps a state whose past is the first element of the
\* original past alone, whose present is that element, and which every
\* further UNDO returns unchanged.
RepeatedUndoTerminates ==
    \E k \in 0..Len(state.past) :
        LET final == UndoTimes(state, k, nextId)
            after == UndoTimes(final, 1, nextId + k)
        IN  /\ Len(final.past) = 1
            /\ final.present = final.past[1]
            /\ final.past[1] = state.past[1]
            /\ SameObject(after, final)
            /\ after = final

RepeatedUndoTerminatesWitness ==
    /\ action2 = "UNDO"
    /\ action = "UNDO"
    /\ Pending(prev2)
    /\ Len(prev2.past) = 2
    /\ Len(state.past) = 1
    /\ state = UndoTimes(prev2, 2, prev.id)
    /\ UndoTimes(state, 1, nextId) = state

\* C35: from every reachable state with a future of length n, n REDOs reach
\* a state with empty future whose past is the original past followed by
\* the original future and whose present is the last element of the
\* original future; every further REDO returns that state unchanged.
RepeatedRedoReplaysFuture ==
    LET n == Len(state.future)
        final == RedoTimes(state, n, nextId)
        after == RedoTimes(final, 1, nextId + n)
    IN  /\ final.future = <<>>
        /\ final.past = state.past \o state.future
        /\ n >= 1 => final.present = state.future[n]
        /\ n = 0 => final = state
        /\ SameObject(after, final)
        /\ after = final

RepeatedRedoReplaysFutureWitness ==
    /\ action2 = "REDO"
    /\ action = "REDO"
    /\ Len(prev2.future) = 2
    /\ Len(prev2.past) >= 2
    /\ state = RedoTimes(prev2, 2, prev.id)
    /\ state.present = prev2.future[2]

\* C36: from every reachable state with no pending edit and
\* past.length > k, k UNDOs followed by k REDOs yield a state whose past,
\* present and future hold the same references in the same order.
MultiLevelRoundTrip ==
    ~Pending(state) =>
        \A k \in 0..(Len(state.past) - 1) :
            SameContents(RedoTimes(UndoTimes(state, k, nextId), k, nextId + k),
                         state)

MultiLevelRoundTripWitness ==
    /\ ~Pending(state)
    /\ Len(state.past) >= 3
    /\ Len(state.future) >= 1
    /\ action2 = "UNDO"
    /\ action = "REDO"
    /\ ~SameObject(UndoTimes(state, 2, nextId), state)
    /\ Len(UndoTimes(state, 2, nextId).past) = Len(state.past) - 2

\* C37: the initial state of the buffered reducer has empty past and
\* future and present and buffer are the same reference, so UNDO and
\* CREATE_UNDO_LEVEL dispatched on it return it unchanged.
InitialBufferedStateNotPending ==
    /\ (bprev = UndefinedStateBuffered) =>
          /\ bstate.past = <<>>
          /\ bstate.future = <<>>
          /\ bstate.present = bstate.buffer
    /\ (/\ bprev # UndefinedStateBuffered
        /\ bprev.id = TheInitialStateBuffered.id
        /\ action \in {"UNDO", "CREATE_UNDO_LEVEL"}) =>
          (bstate.id = bprev.id /\ bstate = bprev)

====
